---- MODULE Spec2Model ----
(***************************************************************************)
(* Custody engine of Best-Inventory-Bot: the ledger store (accounts,       *)
(* categories, items, custody transactions, admin log) and the request     *)
(* handlers that change it.  Every handler runs in its own store session   *)
(* (app/db/session.py get_session): it reads rows into the session, changes *)
(* the loaded objects, flushes and commits once.  Handlers of different    *)
(* updates run as concurrent tasks, so the steps of different handlers     *)
(* interleave at every await that touches the store.                       *)
(*                                                                         *)
(* The store is reached through settings.db_url (app/config.py).  Two      *)
(* kinds of store are modelled, chosen at start and fixed afterwards:      *)
(*   "sqlite"   the default URL: foreign keys are declared but not         *)
(*              enforced (no PRAGMA foreign_keys is issued), and an        *)
(*              INTEGER PRIMARY KEY is the largest rowid plus one;         *)
(*   "postgres" a store that enforces the declared ON DELETE CASCADE       *)
(*              foreign keys and numbers rows from a sequence.             *)
(* Writers are serialised: a session that has flushed a write holds the    *)
(* write lock until it commits or rolls back, readers see committed rows.  *)
(***************************************************************************)
EXTENDS Integers, Sequences, FiniteSets, TLC

\* ---------------------------------------------------------------- bounds
MaxHandlers == 2        \* handlers in flight at the same time
MaxOps == 3             \* handler invocations in one behaviour

\* ------------------------------------------------------------- constants
NULL == 0               \* a nullable column holding no reference

ItemStatus == {"available", "taken", "lost", "maintenance"}
TransactionAction == {"take", "return"}
Backends == {"sqlite", "postgres"}

UserIds == {1, 2, 3}
TelegramIdOf == <<"tg1", "tg2", "tg3">>   \* the accounts' telegram ids
TelegramIds == {"tg1", "tg2"}   \* the callers of the custody handlers
Operators == {"tg1"}            \* the callers of the administrative handlers
Strangers == {"tg4"}            \* the telegram ids that have no account at the start
InitialAdminIds == {"tg1", "tg4"}   \* settings.initial_admin_ids (INITIAL_ADMIN_IDS)

\* Usernames are sequences of characters; NoUsername is the username None.
NoUsername == <<"None">>
\* The telegram ids that send their first /start with a username of their own.
Newcomers == {"tg5", "tg6", "tg7", "tg8", "tg9"}
\* message.from_user.username of each telegram id.
UsernameOf ==
    [tg \in {"tg1", "tg2", "tg3", "tg4", "tg5", "tg6", "tg7", "tg8", "tg9"} |->
        CASE tg = "tg5" -> <<"@", "A">>
          [] tg = "tg6" -> <<"a", "b">>
          [] tg = "tg8" -> <<"@">>
          [] tg = "tg9" -> <<"@", "@", "B">>
          [] OTHER -> NoUsername]
\* INITIAL_ADMIN_USERNAMES as raw.split(",") cuts it: " @A,,@,b ".
RawAdminUsernames == << <<" ", "@", "A">>, <<>>, <<"@">>, <<"b", " ">> >>
CategoryIds == {1, 2}
ItemIds == {1, 2}
Names == {"n1", "n2"}           \* the names typed for categories and items
Codes == {"c1"}                 \* the inventory codes typed for items
NoCode == "None"                \* inventory_code NULL (/skip at creation)
EmptyCode == ""                 \* the code stored by /skip in adm_item_code_finish
Handlers == 1..MaxHandlers
Photos == {"photoA", "photoB"}
NoComment == "None"

\* The messages of the ValueErrors raised by take_item and return_item.
ItemNotFound == "Item not found"
NotAvailable == "Item is not available"
NotTaken == "Item is not currently taken"
NotHolder == "Item is held by another user"

VARIABLES
    backend,        \* which kind of store db_url names
    users,          \* table users: id -> row
    categories,     \* table categories: id -> row
    items,          \* table items: id -> row
    item_seq,       \* the items id sequence (postgres)
    category_seq,   \* the categories id sequence (postgres)
    transactions,   \* table transactions, in id order
    tx_seq,         \* the last transaction id handed out
    clock,          \* the wall clock, as far as the handlers have read it
    admin_logs,     \* table admin_logs, in id order
    panels,         \* the accounts whose chat shows the administrator keyboards
    shown,          \* the category ids those keyboards have offered
    fsm,            \* telegram id -> the state and data of its dialogue (FSMContext)
    notices,        \* the "item taken" / "item returned" notifications sent
    pc,             \* handler slot -> "idle" | "loaded" | "flushed"
    hs,             \* handler slot -> the call it runs and its session's loaded item
    nops,           \* handler invocations started so far, the dialogue buttons aside
    last            \* the call that completed most recently, with its result

vars == <<backend, users, categories, items, item_seq, category_seq, transactions, tx_seq,
          clock, admin_logs, panels, shown, fsm, notices, pc, hs, nops, last>>

store == <<users, categories, items, item_seq, category_seq, transactions, tx_seq,
           admin_logs>>

\* The dialogue of an account: no state, or waiting_for_photo of TakeItemStates
\* ("take") or of ReturnItemStates ("return") with the item id in its data.
NoDialogue == [state |-> "none", item_id |-> NULL]
Waiting(op, i) == [state |-> op, item_id |-> i]

\* Mutant of ClearState: the dialogue is left as it is.
ClearStateNot(f, tg) == f

\* state.clear() of the dialogue of tg.
ClearState(f, tg) == [f EXCEPT ![tg] = NoDialogue]

NoPhoto == ""                   \* message.photo of a message that is no photo

NoSnap == [status |-> "", current_holder_id |-> NULL]
NoCall == [op |-> "none", user |-> NULL, item_id |-> NULL, arg |-> "", snap |-> NoSnap,
           created_at |-> 0]

\* ------------------------------------------------------------ repositories

\* UserRepository.get_or_create_from_telegram, the branch that finds the row.
HasAccount(tg) == \E u \in DOMAIN users : users[u].telegram_id = tg
UserByTelegram(tg) == CHOOSE u \in DOMAIN users : users[u].telegram_id = tg

\* str.lstrip(chars) and str.rstrip(chars) for one character, str.strip() for the
\* blank, str.lower() on the letters that occur.
RECURSIVE LStrip(_, _)
LStrip(s, ch) ==
    IF s # <<>> /\ Head(s) = ch THEN LStrip(Tail(s), ch) ELSE s
RECURSIVE RStrip(_, _)
RStrip(s, ch) ==
    IF s # <<>> /\ s[Len(s)] = ch THEN RStrip(SubSeq(s, 1, Len(s) - 1), ch) ELSE s
Strip(s) == RStrip(LStrip(s, " "), " ")
Lower(s) ==
    [k \in 1..Len(s) |-> IF s[k] = "A" THEN "a" ELSE IF s[k] = "B" THEN "b" ELSE s[k]]

\* _parse_admin_usernames after the split: each part is stripped, an empty part
\* is skipped, the leading '@' are removed and the rest is lower-cased; what is
\* then empty is dropped.  The list is only tested for membership.
ParseAdminUsernames(parts) ==
    {Lower(LStrip(Strip(parts[k]), "@")) :
        k \in {j \in 1..Len(parts) : /\ Strip(parts[j]) # <<>>
                                       /\ Lower(LStrip(Strip(parts[j]), "@")) # <<>>}}
InitialAdminUsernames == ParseAdminUsernames(RawAdminUsernames)

\* Mutant of NormalizedUsername: the case is kept.
NormalizedUsernameCaseKept(username) ==
    LStrip(IF username = NoUsername THEN <<>> ELSE username, "@")

\* ensure_user: normalized_username = (username or "").lstrip("@").lower().
NormalizedUsername(username) ==
    Lower(LStrip(IF username = NoUsername THEN <<>> ELSE username, "@"))

\* ensure_user: make_admin.
MakeAdmin(telegram_id, username) ==
    \/ telegram_id \in InitialAdminIds
    \/ IF NormalizedUsername(username) # <<>>
       THEN NormalizedUsername(username) \in InitialAdminUsernames
       ELSE FALSE

\* ensure_user for a known account: an account on the allow-list that is not an
\* administrator is made one (get_or_create_from_telegram with make_admin).
Promotes(tg) == MakeAdmin(tg, UsernameOf[tg]) /\ ~users[UserByTelegram(tg)].is_admin
EnsureUser(us, tg) ==
    [us EXCEPT ![UserByTelegram(tg)].is_admin = @ \/ MakeAdmin(tg, UsernameOf[tg])]

\* ItemRepository.get_by_id: the committed row, or nothing.
ItemExists(i) == i \in DOMAIN items

\* The row the session loads: the columns the handlers read and write.
Snapshot(i) == [status |-> items[i].status,
                current_holder_id |-> items[i].current_holder_id]

\* Mutant of AddTransaction: the new row replaces the item's earlier rows.
AddTransactionReplacing(txs, id, item_id, user_id, action, photo_file_id, created_at) ==
    LET Other(t) == t.item_id # item_id
    IN  Append(SelectSeq(txs, Other),
               [id |-> id, item_id |-> item_id, user_id |-> user_id,
                action |-> action, photo_file_id |-> photo_file_id,
                comment |-> NoComment, created_at |-> created_at])

\* Mutant of AddTransaction: the row is inserted twice.
AddTransactionTwice(txs, id, item_id, user_id, action, photo_file_id, created_at) ==
    LET row == [id |-> id, item_id |-> item_id, user_id |-> user_id,
                action |-> action, photo_file_id |-> photo_file_id,
                comment |-> NoComment, created_at |-> created_at]
    IN  Append(Append(txs, row), [row EXCEPT !.id = id + 1])

\* TransactionRepository.add_transaction followed by the INSERT of the flush, which
\* fills created_at from the column default (the clock read when the INSERT is sent).
AddTransaction(txs, id, item_id, user_id, action, photo_file_id, created_at) ==
    Append(txs, [id |-> id, item_id |-> item_id, user_id |-> user_id,
                 action |-> action, photo_file_id |-> photo_file_id,
                 comment |-> NoComment, created_at |-> created_at])

\* Mutant of Log: the entry is written twice.
LogTwice(logs, admin_id, action, target) ==
    LET entry == [admin_id |-> admin_id, action |-> action, target |-> target]
    IN  Append(Append(logs, entry), entry)

\* Mutant of Log: the entry does not name the administrator.
LogNobody(logs, admin_id, action, target) ==
    Append(logs, [admin_id |-> NULL, action |-> action, target |-> target])

\* AdminLogRepository.log followed by the INSERT of the flush.
Log(logs, admin_id, action, target) ==
    Append(logs, [admin_id |-> admin_id, action |-> action, target |-> target])

\* The result record of a completed call.
Result(op, user, item_id, result) ==
    [op |-> op, user |-> user, item_id |-> item_id, result |-> result]

\* ---------------------------------------------------------------- initial
\* The deployment after set-up: account 1 is the administrator of the allow-list
\* and has made account 2 an administrator (the one entry of the admin log), both
\* have opened the administrator panel, account 3 is a plain user; one category
\* with one item has been entered.
Init ==
    /\ backend \in Backends
    /\ users = [u \in UserIds |->
                  [telegram_id |-> TelegramIdOf[u], is_admin |-> (u \in {1, 2})]]
    /\ categories = [c \in {1} |-> [name |-> "n1", is_active |-> TRUE]]
    /\ items = [i \in {1} |-> [category_id |-> 1, name |-> "n1",
                               inventory_code |-> NoCode, status |-> "available",
                               current_holder_id |-> NULL]]
    /\ item_seq = 1
    /\ category_seq = 1
    /\ transactions = <<>>
    /\ tx_seq = 0
    /\ clock = 0
    /\ admin_logs = Log(<<>>, 1, "toggle_admin", 2)
    /\ panels = {u \in UserIds : users[u].is_admin}
    /\ shown = DOMAIN categories
    /\ fsm = [tg \in DOMAIN UsernameOf |-> NoDialogue]
    /\ notices = {}
    /\ pc = [h \in Handlers |-> "idle"]
    /\ hs = [h \in Handlers |-> NoCall]
    /\ nops = 0
    /\ last = Result("none", NULL, NULL, "")

\* ------------------------------------------------------------- scheduling

\* No session holds the write lock: none has flushed without committing.
LockFree == \A h \in Handlers : pc[h] # "flushed"

\* A new update is given to the first free handler slot.
FreeSlot(h) == pc[h] = "idle" /\ \A g \in Handlers : g < h => pc[g] # "idle"

AllIdle == \A h \in Handlers : pc[h] = "idle"

Call(op, user, item_id, arg, snap) ==
    [op |-> op, user |-> user, item_id |-> item_id, arg |-> arg, snap |-> snap,
     created_at |-> 0]

\* The handler of slot h ends: its session is closed and its result reported.
Finish(h, result) ==
    /\ pc' = [pc EXCEPT ![h] = "idle"]
    /\ hs' = [hs EXCEPT ![h] = NoCall]
    /\ last' = Result(hs[h].op, hs[h].user, hs[h].item_id, result)

\* ------------------------------------------------------- InventoryService

\* Mutant of TakeCheck: only a taken item is refused.
TakeCheckTakenOnly(i) ==
    IF ~ItemExists(i) THEN ItemNotFound
    ELSE IF items[i].status = "taken" THEN NotAvailable
    ELSE "ok"

\* take_item, the checks after get_by_id: "ok" or the message of the ValueError.
TakeCheck(i) ==
    IF ~ItemExists(i) THEN ItemNotFound
    ELSE IF items[i].status # "available" THEN NotAvailable
    ELSE "ok"

\* Mutant of ReturnCheck: the holder is not compared with the caller.
ReturnCheckAnyCaller(i, u) ==
    IF ~ItemExists(i) THEN ItemNotFound
    ELSE IF items[i].status # "taken" THEN NotTaken
    ELSE "ok"

\* Mutant of ReturnCheck: the holder is compared before the status.
ReturnCheckHolderFirst(i, u) ==
    IF ~ItemExists(i) THEN ItemNotFound
    ELSE IF items[i].current_holder_id # u THEN NotHolder
    ELSE IF items[i].status # "taken" THEN NotTaken
    ELSE "ok"

\* return_item, the checks after get_by_id.
ReturnCheck(i, u) ==
    IF ~ItemExists(i) THEN ItemNotFound
    ELSE IF items[i].status # "taken" THEN NotTaken
    ELSE IF items[i].current_holder_id # u THEN NotHolder
    ELSE "ok"

\* The UPDATE the unit of work emits for a loaded item: it sets the columns whose
\* new value differs from the value the session loaded, and leaves the others as
\* they are in the store.
UpdateChanged(row, snap, status, holder) ==
    [row EXCEPT !.status = IF status # snap.status THEN status ELSE @,
                !.current_holder_id =
                    IF holder # snap.current_holder_id THEN holder ELSE @]

\* The values take_item and return_item assign to the loaded item.
CustodyStatus(op) == IF op = "take" THEN "taken" ELSE "available"
\* Mutant of CustodyHolder: return_item does not clear the holder.
CustodyHolderKept(op, u) == u
CustodyHolder(op, u) == IF op = "take" THEN u ELSE NULL

\* The take button of item i pressed (start_take_item: the dialogue waits for the
\* photo of item i) and the photo that follows it, which receive_take_photo takes
\* up to the checks of take_item: ensure_user, get_by_id, and either the
\* ValueError (answered, the dialogue cleared, the session closed without commit)
\* or the item loaded and changed in the session, the dialogue still waiting.
StartTake(h, tg, i, photo) ==
    /\ nops < MaxOps
    /\ FreeSlot(h)
    /\ nops' = nops + 1
    /\ LET u == UserByTelegram(tg)
           r == TakeCheck(i)
       IN  IF r = "ok"
           THEN /\ pc' = [pc EXCEPT ![h] = "loaded"]
                /\ hs' = [hs EXCEPT ![h] = Call("take", u, i, photo, Snapshot(i))]
                /\ fsm' = [fsm EXCEPT ![tg] = Waiting("take", i)]
                /\ UNCHANGED last
           ELSE /\ last' = Result("take", u, i, r)
                /\ fsm' = ClearState(fsm, tg)
                /\ UNCHANGED <<pc, hs>>
    /\ UNCHANGED <<backend, store, clock, panels, shown, notices>>

\* The return button of item i pressed (start_return_item) and the photo that
\* follows it, which receive_return_photo takes up to the checks of return_item.
StartReturn(h, tg, i, photo) ==
    /\ nops < MaxOps
    /\ FreeSlot(h)
    /\ nops' = nops + 1
    /\ LET u == UserByTelegram(tg)
           r == ReturnCheck(i, u)
       IN  IF r = "ok"
           THEN /\ pc' = [pc EXCEPT ![h] = "loaded"]
                /\ hs' = [hs EXCEPT ![h] = Call("return", u, i, photo, Snapshot(i))]
                /\ fsm' = [fsm EXCEPT ![tg] = Waiting("return", i)]
                /\ UNCHANGED last
           ELSE /\ last' = Result("return", u, i, r)
                /\ fsm' = ClearState(fsm, tg)
                /\ UNCHANGED <<pc, hs>>
    /\ UNCHANGED <<backend, store, clock, panels, shown, notices>>

\* UserRepository.list_admins as notify_admins reads it: the accounts whose
\* is_admin flag is set.  The SELECT has no ORDER BY; the rows are taken in id
\* order, and nothing below depends on the order.
RECURSIVE Ascending(_)
Ascending(S) ==
    IF S = {} THEN <<>>
    ELSE LET m == CHOOSE x \in S : \A y \in S : x <= y
         IN  <<m>> \o Ascending(S \ {m})
ListAdmins == Ascending({u \in DOMAIN users : users[u].is_admin})

\* Mutant of SendAll: the first failed send ends the loop.
RECURSIVE SendAllUntilFailure(_, _)
SendAllUntilFailure(admins, failing) ==
    IF admins = <<>> THEN <<>>
    ELSE IF Head(admins) \in failing
         THEN <<[chat_id |-> users[Head(admins)].telegram_id, delivered |-> FALSE]>>
         ELSE <<[chat_id |-> users[Head(admins)].telegram_id, delivered |-> TRUE]>>
              \o SendAllUntilFailure(Tail(admins), failing)

\* The loop of AdminService.notify_admins over the administrators `admins`: one
\* send_photo to each administrator's chat inside its own try block; a send that
\* raises (the administrators in `failing`) is logged and the loop goes on.
RECURSIVE SendAll(_, _)
SendAll(admins, failing) ==
    IF admins = <<>> THEN <<>>
    ELSE <<[chat_id |-> users[Head(admins)].telegram_id,
            delivered |-> Head(admins) \notin failing]>>
         \o SendAll(Tail(admins), failing)

\* AdminService.notify_admins as receive_take_photo and receive_return_photo call
\* it for call c: the administrators the session sees are each sent the message
\* (a failed send is logged and passed over); with no administrator none is sent.
NotifyAdmins(sent, c, at, failing) ==
    IF ListAdmins # <<>>
    THEN sent \cup {[action |-> c.op, item_id |-> c.item_id, user_id |-> c.user,
                     photo_file_id |-> c.arg, created_at |-> at,
                     deliveries |-> SendAll(ListAdmins, failing)]}
    ELSE sent

\* Mutant of FlushCustody: the flushed UPDATE is committed at once.
FlushCustodyAutocommit(h) ==
    /\ pc[h] = "loaded"
    /\ hs[h].op \in TransactionAction
    /\ LockFree
    /\ IF ItemExists(hs[h].item_id)
       THEN /\ pc' = [pc EXCEPT ![h] = "flushed"]
            /\ items' = [items EXCEPT ![hs[h].item_id] =
                            UpdateChanged(@, hs[h].snap, CustodyStatus(hs[h].op),
                                          CustodyHolder(hs[h].op, hs[h].user))]
            /\ clock' = clock + 1
            /\ hs' = [hs EXCEPT ![h].created_at = clock + 1]
            /\ notices' = NotifyAdmins(notices, hs[h], clock + 1, {})
            /\ UNCHANGED last
       ELSE Finish(h, "error") /\ UNCHANGED <<items, clock, notices>>
    /\ UNCHANGED <<backend, users, categories, item_seq, category_seq, transactions,
                   tx_seq, admin_logs, panels, shown, fsm, nops>>

\* The session.flush() that ends take_item and return_item: the UPDATE of the item
\* and the INSERT of the transaction are sent inside the session's transaction,
\* which takes the write lock.  An UPDATE that matches no row (the item was deleted
\* since it was loaded) raises StaleDataError and the handler ends without commit.
\* The UPDATE of the item is sent first (the transaction row refers to the item);
\* the INSERT that follows reads the clock for created_at, under the write lock.
\* The handler goes on to notify_admins, which sends the notifications before
\* the commit; the sends to the administrators in `failing` raise.
FlushAndNotify(h, failing) ==
    /\ pc[h] = "loaded"
    /\ hs[h].op \in TransactionAction
    /\ LockFree
    /\ IF ItemExists(hs[h].item_id)
       THEN /\ pc' = [pc EXCEPT ![h] = "flushed"]
            /\ clock' = clock + 1
            /\ hs' = [hs EXCEPT ![h].created_at = clock + 1]
            /\ notices' = NotifyAdmins(notices, hs[h], clock + 1, failing)
            /\ UNCHANGED last
       ELSE Finish(h, "error") /\ UNCHANGED <<clock, notices>>
    /\ UNCHANGED <<backend, store, panels, shown, fsm, nops>>

\* The flush and the notification when every send is delivered.
FlushCustody(h) == FlushAndNotify(h, {})

\* The rest of receive_take_photo / receive_return_photo: the one
\* session.commit(), which publishes the item's changed columns and the new
\* transaction together, then state.clear() and the answer to the caller.
CommitCustody(h) ==
    /\ pc[h] = "flushed"
    /\ hs[h].op \in TransactionAction
    /\ LET c == hs[h]
       IN  /\ items' = [items EXCEPT ![c.item_id] =
                           UpdateChanged(@, c.snap, CustodyStatus(c.op),
                                         CustodyHolder(c.op, c.user))]
           /\ transactions' = AddTransaction(transactions, tx_seq + 1, c.item_id,
                                             c.user, c.op, c.arg, c.created_at)
           /\ tx_seq' = tx_seq + 1
    /\ fsm' = ClearState(fsm, users[hs[h].user].telegram_id)
    /\ Finish(h, "ok")
    /\ UNCHANGED <<backend, users, categories, item_seq, category_seq, clock,
                   admin_logs, panels, shown, notices, nops>>

\* A handler that has not committed ends by an exception (the store fails, the
\* task is cancelled): get_session closes the session, which rolls back.
Abort(h) ==
    /\ pc[h] \in {"loaded", "flushed"}
    /\ Finish(h, "error")
    /\ UNCHANGED <<backend, store, clock, panels, shown, fsm, notices, nops>>

\* ------------------------------------------------------------ AdminService

\* adm_item_set_status up to get_by_id in set_item_status.  ensure_user comes
\* first: if it promotes the caller, its flush writes, so the session holds the
\* write lock from then on.  A missing item returns False and the handler commits
\* what ensure_user changed; else the item is loaded.
StartSetStatus(h, tg, i, status) ==
    /\ nops < MaxOps
    /\ FreeSlot(h)
    /\ UserByTelegram(tg) \in panels
    /\ Promotes(tg) => LockFree
    /\ nops' = nops + 1
    /\ LET u == UserByTelegram(tg)
       IN  IF ItemExists(i)
           THEN /\ pc' = [pc EXCEPT ![h] = IF Promotes(tg) THEN "flushed" ELSE "loaded"]
                /\ hs' = [hs EXCEPT ![h] =
                            Call("set_status", u, i, status, Snapshot(i))]
                /\ UNCHANGED <<last, users>>
           ELSE /\ last' = Result("set_status", u, i, "False")
                /\ users' = EnsureUser(users, tg)
                /\ UNCHANGED <<pc, hs>>
    /\ UNCHANGED <<backend, categories, items, item_seq, category_seq, transactions,
                   tx_seq, admin_logs, clock, panels, shown, fsm, notices>>

\* What set_item_status assigns: the status, and no holder unless the status is TAKEN.
ForcedHolder(status, snap) ==
    IF status # "taken" THEN NULL ELSE snap.current_holder_id

\* The rest of set_item_status and of its handler: the assignments, the log entry,
\* flush and commit.  The UPDATE is emitted only if a column changed; if it then
\* matches no row, StaleDataError ends the handler and nothing is committed.
FinishSetStatus(h) ==
    /\ pc[h] \in {"loaded", "flushed"}
    /\ hs[h].op = "set_status"
    /\ pc[h] = "loaded" => LockFree
    /\ LET c == hs[h]
           holder == ForcedHolder(c.arg, c.snap)
           changed == c.arg # c.snap.status \/ holder # c.snap.current_holder_id
       IN  IF changed /\ ~ItemExists(c.item_id)
           THEN /\ Finish(h, "error")
                /\ UNCHANGED <<items, admin_logs, users>>
           ELSE /\ items' = IF changed
                            THEN [items EXCEPT ![c.item_id] =
                                    UpdateChanged(@, c.snap, c.arg, holder)]
                            ELSE items
                /\ admin_logs' = Log(admin_logs, c.user, "set_item_status", c.item_id)
                /\ users' = IF pc[h] = "flushed"
                            THEN EnsureUser(users, users[c.user].telegram_id)
                            ELSE users
                /\ Finish(h, "True")
    /\ UNCHANGED <<backend, categories, item_seq, category_seq, transactions, tx_seq,
                   clock, panels, shown, fsm, notices, nops>>

\* The custody transactions left when the items in `gone` are deleted: the
\* transactions.item_id foreign key is ON DELETE CASCADE, where it is enforced.
CascadeTransactions(txs, gone) ==
    LET Kept(t) == t.item_id \notin gone
    IN  IF backend = "postgres" THEN SelectSeq(txs, Kept) ELSE txs

\* The table `f` without the rows whose ids are in `gone`.
Without(f, gone) == [x \in DOMAIN f \ gone |-> f[x]]

\* What an administrative handler that runs in one session leaves unchanged
\* besides the tables it writes: the handlers in flight, the clock, the keyboards.
AdminFrame == UNCHANGED <<backend, clock, panels, shown, fsm, notices, pc, hs, tx_seq>>

\* The conditions under which an administrative handler runs: the caller's chat
\* shows the keyboard (or the dialogue) that leads to it, and the handler's
\* statements wait for the write lock.  None of these handlers looks at is_admin.
AdminCall(tg) ==
    /\ nops < MaxOps
    /\ LockFree
    /\ UserByTelegram(tg) \in panels
    /\ nops' = nops + 1

\* Mutant of Matched: the statement's rowcount is not looked at.
MatchedAlways(table, id) == TRUE

\* result.rowcount > 0 of an UPDATE or DELETE statement WHERE id = ...: the
\* statement matched a row of the table.
Matched(table, id) == id \in DOMAIN table

\* adm_delete_item_execute: ensure_user, delete_item (one DELETE statement, a log
\* entry if a row was deleted), commit.
DeleteItem(tg, i) ==
    /\ AdminCall(tg)
    /\ users' = EnsureUser(users, tg)
    /\ LET u == UserByTelegram(tg)
       IN  IF Matched(items, i)
           THEN /\ items' = Without(items, {i})
                /\ transactions' = CascadeTransactions(transactions, {i})
                /\ admin_logs' = Log(admin_logs, u, "delete_item", i)
                /\ last' = Result("delete_item", u, i, "True")
           ELSE /\ last' = Result("delete_item", u, i, "False")
                /\ UNCHANGED <<items, transactions, admin_logs>>
    /\ UNCHANGED <<categories, item_seq, category_seq>>
    /\ AdminFrame

\* adm_delete_category_execute: one DELETE statement on categories; the
\* items.category_id foreign key is ON DELETE CASCADE, where it is enforced.
DeleteCategory(tg, c) ==
    /\ AdminCall(tg)
    /\ users' = EnsureUser(users, tg)
    /\ LET u == UserByTelegram(tg)
           gone == IF backend = "postgres"
                   THEN {i \in DOMAIN items : items[i].category_id = c}
                   ELSE {}
       IN  IF Matched(categories, c)
           THEN /\ categories' = Without(categories, {c})
                /\ items' = Without(items, gone)
                /\ transactions' = CascadeTransactions(transactions, gone)
                /\ admin_logs' = Log(admin_logs, u, "delete_category", c)
                /\ last' = Result("delete_category", u, c, "True")
           ELSE /\ last' = Result("delete_category", u, c, "False")
                /\ UNCHANGED <<categories, items, transactions, admin_logs>>
    /\ UNCHANGED <<item_seq, category_seq>>
    /\ AdminFrame

\* The id the store gives a new row.
Max(S) == CHOOSE x \in S : \A y \in S : y <= x
NewItemId == IF backend = "postgres" THEN item_seq + 1
             ELSE Max(DOMAIN items \cup {0}) + 1
NewUserId == Max(DOMAIN users) + 1     \* no account is ever deleted
NewCategoryId == IF backend = "postgres" THEN category_seq + 1
                 ELSE Max(DOMAIN categories \cup {0}) + 1

\* Mutants of CodeInUse and NameInUse: the constraint is not there.
CodeNeverInUse(code, self) == FALSE
NameNeverInUse(name, self) == FALSE

\* The UNIQUE constraints of items.inventory_code and categories.name, as seen by
\* a statement that gives row `self` the value: NULL codes do not collide, every
\* other value (the empty string too) does.  Both kinds of store enforce them.
CodeInUse(code, self) ==
    /\ code # NoCode
    /\ \E j \in DOMAIN items \ {self} : items[j].inventory_code = code
NameInUse(name, self) ==
    \E c \in DOMAIN categories \ {self} : categories[c].name = name

\* adm_create_item_code, for a category whose "add item" button the caller was
\* shown when the dialogue began: ensure_user, create_item (INSERT of the item with the
\* column defaults, a log entry, flush), commit.  The flush raises IntegrityError
\* for a code in use and, where foreign keys are enforced, for a missing
\* category; the handler reports the exception and its session rolls back.
CreateItem(tg, c, name, code) ==
    /\ AdminCall(tg)
    /\ c \in shown
    /\ NewItemId \in ItemIds
    /\ item_seq' = IF backend = "postgres" THEN item_seq + 1 ELSE item_seq
    /\ LET u == UserByTelegram(tg)
           id == NewItemId
       IN  IF \/ CodeInUse(code, NULL)
              \/ backend = "postgres" /\ c \notin DOMAIN categories
           THEN /\ last' = Result("create_item", u, NULL, "error")
                /\ UNCHANGED <<items, admin_logs, users>>
           ELSE /\ items' = [x \in DOMAIN items \cup {id} |->
                               IF x = id
                               THEN [category_id |-> c, name |-> name,
                                     inventory_code |-> code, status |-> "available",
                                     current_holder_id |-> NULL]
                               ELSE items[x]]
                /\ admin_logs' = Log(admin_logs, u, "create_item", c)
                /\ users' = EnsureUser(users, tg)
                /\ last' = Result("create_item", u, id, "True")
    /\ UNCHANGED <<categories, category_seq, transactions>>
    /\ AdminFrame

\* adm_rename_item_finish: ensure_user, rename_item (one UPDATE statement, a log
\* entry if it matched a row), commit.
RenameItem(tg, i, name) ==
    /\ AdminCall(tg)
    /\ users' = EnsureUser(users, tg)
    /\ LET u == UserByTelegram(tg)
       IN  IF Matched(items, i)
           THEN /\ items' = [items EXCEPT ![i].name = name]
                /\ admin_logs' = Log(admin_logs, u, "rename_item", i)
                /\ last' = Result("rename_item", u, i, "True")
           ELSE /\ last' = Result("rename_item", u, i, "False")
                /\ UNCHANGED <<items, admin_logs>>
    /\ UNCHANGED <<categories, item_seq, category_seq, transactions>>
    /\ AdminFrame

\* adm_item_code_finish: ensure_user, update_item_code(new_code or ""), commit.
\* The UPDATE raises IntegrityError for a code in use by another item; the
\* handler does not catch it and its session rolls back.
UpdateItemCode(tg, i, code) ==
    /\ AdminCall(tg)
    /\ LET u == UserByTelegram(tg)
       IN  IF Matched(items, i) /\ CodeInUse(code, i)
           THEN /\ last' = Result("update_item_code", u, i, "error")
                /\ UNCHANGED <<items, admin_logs, users>>
           ELSE /\ users' = EnsureUser(users, tg)
                /\ IF Matched(items, i)
                   THEN /\ items' = [items EXCEPT ![i].inventory_code = code]
                        /\ admin_logs' = Log(admin_logs, u, "update_item_code", i)
                        /\ last' = Result("update_item_code", u, i, "True")
                   ELSE /\ last' = Result("update_item_code", u, i, "False")
                        /\ UNCHANGED <<items, admin_logs>>
    /\ UNCHANGED <<categories, item_seq, category_seq, transactions>>
    /\ AdminFrame

\* adm_create_category_desc: ensure_user, create_category (INSERT, a log entry,
\* flush), commit.  The flush raises IntegrityError for a name in use; the handler
\* reports the exception and its session rolls back.
CreateCategory(tg, name) ==
    /\ AdminCall(tg)
    /\ NewCategoryId \in CategoryIds
    /\ category_seq' = IF backend = "postgres" THEN category_seq + 1 ELSE category_seq
    /\ LET u == UserByTelegram(tg)
           id == NewCategoryId
       IN  IF NameInUse(name, NULL)
           THEN /\ last' = Result("create_category", u, NULL, "error")
                /\ UNCHANGED <<categories, admin_logs, users>>
           ELSE /\ categories' = [x \in DOMAIN categories \cup {id} |->
                                    IF x = id THEN [name |-> name, is_active |-> TRUE]
                                    ELSE categories[x]]
                /\ admin_logs' = Log(admin_logs, u, "create_category", id)
                /\ users' = EnsureUser(users, tg)
                /\ last' = Result("create_category", u, id, "True")
    /\ shown' = shown \cup DOMAIN categories'
    /\ UNCHANGED <<items, item_seq, transactions>>
    /\ UNCHANGED <<backend, clock, panels, fsm, notices, pc, hs, tx_seq>>

\* adm_rename_category_finish: ensure_user, rename_category (one UPDATE statement,
\* a log entry if it matched a row), commit.  The UPDATE raises IntegrityError for
\* a name in use by another category; the handler does not catch it.
RenameCategory(tg, c, name) ==
    /\ AdminCall(tg)
    /\ LET u == UserByTelegram(tg)
       IN  IF Matched(categories, c) /\ NameInUse(name, c)
           THEN /\ last' = Result("rename_category", u, c, "error")
                /\ UNCHANGED <<categories, admin_logs, users>>
           ELSE /\ users' = EnsureUser(users, tg)
                /\ IF Matched(categories, c)
                   THEN /\ categories' = [categories EXCEPT ![c].name = name]
                        /\ admin_logs' = Log(admin_logs, u, "rename_category", c)
                        /\ last' = Result("rename_category", u, c, "True")
                   ELSE /\ last' = Result("rename_category", u, c, "False")
                        /\ UNCHANGED <<categories, admin_logs>>
    /\ UNCHANGED <<items, item_seq, category_seq, transactions>>
    /\ AdminFrame

\* adm_deactivate_category (active = FALSE) and adm_activate_category (active =
\* TRUE): ensure_user, one UPDATE of is_active, a log entry if it matched a row,
\* commit.
SetCategoryActive(tg, c, active) ==
    /\ AdminCall(tg)
    /\ users' = EnsureUser(users, tg)
    /\ LET u == UserByTelegram(tg)
           action == IF active THEN "activate_category" ELSE "deactivate_category"
       IN  IF Matched(categories, c)
           THEN /\ categories' = [categories EXCEPT ![c].is_active = active]
                /\ admin_logs' = Log(admin_logs, u, action, c)
                /\ last' = Result(action, u, c, "True")
           ELSE /\ last' = Result(action, u, c, "False")
                /\ UNCHANGED <<categories, admin_logs>>
    /\ UNCHANGED <<items, item_seq, category_seq, transactions>>
    /\ AdminFrame

\* UserRepository.toggle_admin on the accounts as the session sees them.
Toggled(us, target) == [us EXCEPT ![target].is_admin = ~@]

\* The values a handler's answer is made from, as the result of a call.
Shown(value) == IF value THEN "True" ELSE "False"

\* adm_toggle_admin: ensure_user, toggle_admin (the target's is_admin is negated
\* and returned, a log entry), commit; for a target id that names no account
\* toggle_admin returns None and nothing is logged.
ToggleAdmin(tg, target) ==
    /\ AdminCall(tg)
    /\ LET u == UserByTelegram(tg)
       IN  IF target \in DOMAIN users
           THEN /\ users' = Toggled(EnsureUser(users, tg), target)
                /\ admin_logs' = Log(admin_logs, u, "toggle_admin", target)
                /\ last' = Result("toggle_admin", u, target,
                                  Shown(users'[target].is_admin))
           ELSE /\ users' = EnsureUser(users, tg)
                /\ last' = Result("toggle_admin", u, target, "None")
                /\ UNCHANGED admin_logs
    /\ UNCHANGED <<categories, items, item_seq, category_seq, transactions>>
    /\ AdminFrame

\* admin_entry: _require_admin (ensure_user in a session of its own, committed,
\* then the is_admin test); an administrator is sent the administrator keyboard.
AdminEntry(tg) ==
    /\ nops < MaxOps
    /\ Promotes(tg) => LockFree
    /\ nops' = nops + 1
    /\ users' = EnsureUser(users, tg)
    /\ LET u == UserByTelegram(tg)
       IN  IF users'[u].is_admin
           THEN /\ panels' = panels \cup {u}
                /\ last' = Result("admin_entry", u, NULL, "True")
           ELSE /\ last' = Result("admin_entry", u, NULL, "False")
                /\ UNCHANGED panels
    /\ UNCHANGED <<backend, categories, items, item_seq, category_seq, transactions,
                   tx_seq, admin_logs, clock, shown, fsm, notices, pc, hs>>

\* --------------------------------------------------------------- dialogue

\* start_take_item (op = "take") and start_return_item (op = "return"): the button
\* of item i is pressed; the item id is put into the dialogue's data and the
\* dialogue waits for the photo.  The store is not read.
PressButton(tg, op, i) ==
    /\ fsm' = [fsm EXCEPT ![tg] = Waiting(op, i)]
    /\ UNCHANGED <<backend, store, clock, panels, shown, notices, pc, hs, nops, last>>

\* user_cancel: the cancel button of a waiting dialogue is pressed.
Cancel(tg) ==
    /\ fsm[tg] # NoDialogue
    /\ fsm' = ClearState(fsm, tg)
    /\ UNCHANGED <<backend, store, clock, panels, shown, notices, pc, hs, nops, last>>

\* The text that cmd_start filters on.
StartText == "/start"

\* Mutant of Route: the handlers that receive the photo do not filter on F.photo.
RouteAnyMessage(state, content) ==
    IF state = "take" THEN "receive_take_photo"
    ELSE IF state = "return" THEN "receive_return_photo"
    ELSE "unhandled"

\* The handler the user router gives a message of a dialogue in `state` to: cmd_start,
\* which is registered first and filters on the text alone, then the message
\* handlers filtered on waiting_for_photo, in the order in which they are
\* registered.  `content` is the file id of the photo, StartText for the text
\* "/start", NoPhoto for other messages.
Route(state, content) ==
    IF content = StartText THEN "cmd_start"
    ELSE IF state = "take"
    THEN IF content # NoPhoto THEN "receive_take_photo" ELSE "expect_photo_for_take"
    ELSE IF state = "return"
    THEN IF content # NoPhoto THEN "receive_return_photo" ELSE "expect_photo_for_return"
    ELSE "unhandled"

\* A message that Route gives to receive_take_photo: the item id is the one of
\* the dialogue's data.
ReceiveTakePhoto(h, tg, content) ==
    /\ Route(fsm[tg].state, content) = "receive_take_photo"
    /\ StartTake(h, tg, fsm[tg].item_id, content)

\* A message that Route gives to receive_return_photo.
ReceiveReturnPhoto(h, tg, content) ==
    /\ Route(fsm[tg].state, content) = "receive_return_photo"
    /\ StartReturn(h, tg, fsm[tg].item_id, content)

\* Mutant of ExpectPhoto: the handler ends the dialogue.
ExpectPhotoClearing(tg, content) ==
    /\ nops < MaxOps
    /\ Route(fsm[tg].state, content) \in {"expect_photo_for_take", "expect_photo_for_return"}
    /\ nops' = nops + 1
    /\ last' = Result(Route(fsm[tg].state, content), UserByTelegram(tg),
                      fsm[tg].item_id, "")
    /\ fsm' = ClearState(fsm, tg)
    /\ UNCHANGED <<backend, store, clock, panels, shown, notices, pc, hs>>

\* expect_photo_for_take and expect_photo_for_return: the message is answered
\* with the request for a photo; the dialogue goes on waiting.
ExpectPhoto(tg, content) ==
    /\ nops < MaxOps
    /\ Route(fsm[tg].state, content) \in {"expect_photo_for_take", "expect_photo_for_return"}
    /\ nops' = nops + 1
    /\ last' = Result(Route(fsm[tg].state, content), UserByTelegram(tg),
                      fsm[tg].item_id, "")
    /\ UNCHANGED <<backend, store, clock, panels, shown, fsm, notices, pc, hs>>

\* ---------------------------------------------------------------- contact

\* Mutant of TelegramIdInUse: the constraint is not there.
TelegramIdNeverInUse(tg) == FALSE

\* The UNIQUE constraint of users.telegram_id, as seen by an INSERT.
TelegramIdInUse(tg) == HasAccount(tg)

\* cmd_start up to the SELECT of get_or_create_from_telegram: state.clear(), then
\* _ensure_user in a session of its own.  For an identity that has an account
\* the row is returned (an account of the allow-list that is not an
\* administrator is made one) and the session commits; for an identity without
\* account a new User is added to the session, is_admin set from the allow-list.
ContactStart(h, tg) ==
    /\ nops < MaxOps
    /\ FreeSlot(h)
    /\ nops' = nops + 1
    /\ fsm' = ClearState(fsm, tg)
    /\ IF HasAccount(tg)
       THEN /\ Promotes(tg) => LockFree
            /\ users' = EnsureUser(users, tg)
            /\ last' = Result("start", UserByTelegram(tg), NULL,
                              Shown(users'[UserByTelegram(tg)].is_admin))
            /\ UNCHANGED <<pc, hs>>
       ELSE /\ pc' = [pc EXCEPT ![h] = "loaded"]
            /\ hs' = [hs EXCEPT ![h] = Call("start", NULL, NULL, tg, NoSnap)]
            /\ UNCHANGED <<users, last>>
    /\ UNCHANGED <<backend, categories, items, item_seq, category_seq, transactions,
                   tx_seq, admin_logs, clock, panels, shown, notices>>

\* The session.flush() of ensure_user for a new User: the INSERT takes the write
\* lock; it raises IntegrityError if the identity has got an account since the
\* SELECT, and the handler ends without commit.
ContactFlush(h) ==
    /\ pc[h] = "loaded"
    /\ hs[h].op = "start"
    /\ LockFree
    /\ IF TelegramIdInUse(hs[h].arg)
       THEN Finish(h, "error")
       ELSE /\ pc' = [pc EXCEPT ![h] = "flushed"]
            /\ UNCHANGED <<hs, last>>
    /\ UNCHANGED <<backend, store, clock, panels, shown, fsm, notices, nops>>

\* The session.commit() of _ensure_user: the new account is published.
ContactCommit(h) ==
    /\ pc[h] = "flushed"
    /\ hs[h].op = "start"
    /\ LET tg == hs[h].arg
           id == NewUserId
       IN  /\ users' = [u \in DOMAIN users \cup {id} |->
                           IF u = id
                           THEN [telegram_id |-> tg,
                                 is_admin |-> MakeAdmin(tg, UsernameOf[tg])]
                           ELSE users[u]]
           /\ pc' = [pc EXCEPT ![h] = "idle"]
           /\ hs' = [hs EXCEPT ![h] = NoCall]
           /\ last' = Result("start", id, NULL, Shown(MakeAdmin(tg, UsernameOf[tg])))
    /\ UNCHANGED <<backend, categories, items, item_seq, category_seq, transactions,
                   tx_seq, admin_logs, clock, panels, shown, fsm, notices, nops>>

\* A message that Route gives to cmd_start, whatever the dialogue is.
ReceiveStart(h, tg, content) ==
    /\ Route(fsm[tg].state, content) = "cmd_start"
    /\ ContactStart(h, tg)

\* ------------------------------------------------------------ specification

Next ==
    \/ \E h \in Handlers, tg \in TelegramIds, i \in ItemIds, p \in Photos :
          StartTake(h, tg, i, p)
    \/ \E h \in Handlers, tg \in TelegramIds, i \in ItemIds, p \in Photos :
          StartReturn(h, tg, i, p)
    \/ \E h \in Handlers : FlushCustody(h)
    \/ \E h \in Handlers : CommitCustody(h)
    \/ \E h \in Handlers : Abort(h)
    \/ \E h \in Handlers, tg \in Operators, i \in ItemIds, s \in ItemStatus :
          StartSetStatus(h, tg, i, s)
    \/ \E h \in Handlers : FinishSetStatus(h)
    \/ \E tg \in Operators, i \in ItemIds : DeleteItem(tg, i)
    \/ \E tg \in Operators, c \in CategoryIds : DeleteCategory(tg, c)
    \/ \E tg \in Operators, c \in CategoryIds : CreateItem(tg, c, "n1", NoCode)

Spec == Init /\ [][Next]_vars

\* One handler at a time: an update is taken up only when no handler is in flight,
\* and no handler is cut short.  The behaviours of calls made one after another.
SeqStartTake(tg, i, p) == AllIdle /\ \E h \in Handlers : StartTake(h, tg, i, p)
SeqStartReturn(tg, i, p) == AllIdle /\ \E h \in Handlers : StartReturn(h, tg, i, p)
SeqStartSetStatus(tg, i, s) == AllIdle /\ \E h \in Handlers : StartSetStatus(h, tg, i, s)
SeqDeleteItem(tg, i) == AllIdle /\ DeleteItem(tg, i)
SeqDeleteCategory(tg, c) == AllIdle /\ DeleteCategory(tg, c)
SeqCreateItem(tg, c) == AllIdle /\ CreateItem(tg, c, "n1", NoCode)

NextSeq ==
    \/ \E tg \in TelegramIds, i \in ItemIds, p \in Photos : SeqStartTake(tg, i, p)
    \/ \E tg \in TelegramIds, i \in ItemIds, p \in Photos : SeqStartReturn(tg, i, p)
    \/ \E h \in Handlers : FlushCustody(h)
    \/ \E h \in Handlers : CommitCustody(h)
    \/ \E tg \in Operators, i \in ItemIds, s \in ItemStatus : SeqStartSetStatus(tg, i, s)
    \/ \E h \in Handlers : FinishSetStatus(h)
    \/ \E tg \in Operators, i \in ItemIds : SeqDeleteItem(tg, i)
    \/ \E tg \in Operators, c \in CategoryIds : SeqDeleteCategory(tg, c)
    \/ \E tg \in Operators, c \in CategoryIds : SeqCreateItem(tg, c)

SpecSeq == Init /\ [][NextSeq]_vars

\* The race of the exclusivity test: every account sends one photo for item 1,
\* the k-th update coming from the k-th account; the handlers interleave freely
\* and none is cut short.
RaceItem == CHOOSE i \in ItemIds : \A j \in ItemIds : i <= j
RaceCaller(k) == users[k].telegram_id
RaceCalls == Cardinality(UserIds)

RaceStartTake(p) ==
    /\ nops < RaceCalls
    /\ \E h \in Handlers : StartTake(h, RaceCaller(nops + 1), RaceItem, p)

NextRace ==
    \/ \E p \in Photos : RaceStartTake(p)
    \/ \E h \in Handlers : FlushCustody(h)
    \/ \E h \in Handlers : CommitCustody(h)

SpecRace == Init /\ [][NextRace]_vars

\* The catalogue dialogues of one administrator: categories and items are
\* created, renamed, recoded, switched and deleted, one handler after another.
NextCatalog ==
    \/ \E tg \in Operators, n \in Names : CreateCategory(tg, n)
    \/ \E tg \in Operators, c \in CategoryIds, n \in Names : RenameCategory(tg, c, n)
    \/ \E tg \in Operators, c \in CategoryIds, a \in BOOLEAN : SetCategoryActive(tg, c, a)
    \/ \E tg \in Operators, c \in CategoryIds : DeleteCategory(tg, c)
    \/ \E tg \in Operators, c \in CategoryIds, code \in {NoCode} \cup Codes :
          CreateItem(tg, c, "n1", code)
    \/ \E tg \in Operators, i \in ItemIds, code \in {EmptyCode} \cup Codes :
          UpdateItemCode(tg, i, code)
    \/ \E tg \in Operators, i \in ItemIds : DeleteItem(tg, i)

SpecCatalog == Init /\ [][NextCatalog]_vars

\* The administrative handlers as two accounts call them: the account of the
\* allow-list and an account it has promoted, each of which can take the
\* administrator flag from the other (or from itself) between any two calls.
GateCallers == {"tg1", "tg2"}
GateTargets == {UserByTelegram(tg) : tg \in GateCallers} \cup {NewUserId}
GateItems == {1}
GateCategories == {1}

NextGate ==
    \/ \E tg \in GateCallers : AdminEntry(tg)
    \/ \E tg \in GateCallers, t \in GateTargets : ToggleAdmin(tg, t)
    \/ \E h \in Handlers, tg \in GateCallers, i \in GateItems :
          StartSetStatus(h, tg, i, "lost")
    \/ \E h \in Handlers : FinishSetStatus(h)
    \/ \E tg \in GateCallers, i \in GateItems : DeleteItem(tg, i)
    \/ \E tg \in GateCallers, c \in GateCategories : CreateItem(tg, c, "n1", NoCode)
    \/ \E tg \in GateCallers, i \in GateItems : RenameItem(tg, i, "n2")
    \/ \E tg \in GateCallers, i \in GateItems, code \in Codes :
          UpdateItemCode(tg, i, code)
    \/ \E tg \in GateCallers : CreateCategory(tg, "n2")
    \/ \E tg \in GateCallers, c \in GateCategories : RenameCategory(tg, c, "n2")
    \/ \E tg \in GateCallers, c \in GateCategories, a \in BOOLEAN :
          SetCategoryActive(tg, c, a)
    \/ \E tg \in GateCallers, c \in GateCategories : DeleteCategory(tg, c)

SpecGate == Init /\ [][NextGate]_vars

\* The dialogues of the users: buttons pressed, photos and other messages sent,
\* in any order, the handlers interleaving freely and none cut short.
Contents == {"photoA", NoPhoto}
DialogueItems == {i \in ItemIds : \A j \in ItemIds : i <= j}

NextDialogue ==
    \/ \E tg \in TelegramIds, op \in TransactionAction, i \in DialogueItems :
          PressButton(tg, op, i)
    \/ \E tg \in TelegramIds : Cancel(tg)
    \/ \E h \in Handlers, tg \in TelegramIds, m \in Contents : ReceiveTakePhoto(h, tg, m)
    \/ \E h \in Handlers, tg \in TelegramIds, m \in Contents : ReceiveReturnPhoto(h, tg, m)
    \/ \E tg \in TelegramIds, m \in Contents : ExpectPhoto(tg, m)
    \/ \E h \in Handlers : FlushCustody(h)
    \/ \E h \in Handlers : CommitCustody(h)

SpecDialogue == Init /\ [][NextDialogue]_vars

\* The dialogues with all that ends them: besides photos and other messages the
\* users send "/start", the operator deletes the item, and a handler that has not
\* committed may be cut short.
Messages == Contents \cup {StartText}

NextConversation ==
    \/ \E tg \in TelegramIds, op \in TransactionAction, i \in DialogueItems :
          PressButton(tg, op, i)
    \/ \E tg \in TelegramIds : Cancel(tg)
    \/ \E h \in Handlers, tg \in TelegramIds, m \in Messages : ReceiveTakePhoto(h, tg, m)
    \/ \E h \in Handlers, tg \in TelegramIds, m \in Messages : ReceiveReturnPhoto(h, tg, m)
    \/ \E tg \in TelegramIds, m \in Messages : ExpectPhoto(tg, m)
    \/ \E h \in Handlers, tg \in TelegramIds, m \in Messages : ReceiveStart(h, tg, m)
    \/ \E h \in Handlers : FlushCustody(h)
    \/ \E h \in Handlers : CommitCustody(h)
    \/ \E h \in Handlers : Abort(h)
    \/ \E tg \in Operators, i \in DialogueItems : DeleteItem(tg, i)

SpecConversation == Init /\ [][NextConversation]_vars

\* The first contacts: telegram ids without account send /start one after
\* another, each with its username.
SeqContactStart(tg) == AllIdle /\ \E h \in Handlers : ContactStart(h, tg)

NextBootstrap ==
    \/ \E tg \in Strangers \cup Newcomers : SeqContactStart(tg)
    \/ \E h \in Handlers : ContactFlush(h)
    \/ \E h \in Handlers : ContactCommit(h)

SpecBootstrap == Init /\ [][NextBootstrap]_vars

\* The notifications: users take and return the item while the operator toggles
\* the administrator flag of the accounts that are not on the allow-list; of the
\* sends of one notification any subset fails.
NotifyTargets == {u \in UserIds : TelegramIdOf[u] \notin InitialAdminIds}

NextNotify ==
    \/ \E h \in Handlers, tg \in TelegramIds, i \in DialogueItems :
          StartTake(h, tg, i, "photoA")
    \/ \E h \in Handlers, tg \in TelegramIds, i \in DialogueItems :
          StartReturn(h, tg, i, "photoA")
    \/ \E h \in Handlers :
          \E failing \in SUBSET {u \in DOMAIN users : users[u].is_admin} :
              FlushAndNotify(h, failing)
    \/ \E h \in Handlers : CommitCustody(h)
    \/ \E tg \in Operators, t \in NotifyTargets : ToggleAdmin(tg, t)

SpecNotify == Init /\ [][NextNotify]_vars

\* The accounts: identities send /start, those with and the one without account,
\* while the two administrators toggle administrator flags; the handlers
\* interleave freely and none is cut short.
AccountCallers == {TelegramIdOf[u] : u \in UserIds} \cup Strangers
AccountTargets == 1..(Cardinality(UserIds) + Cardinality(Strangers))

NextAccounts ==
    \/ \E h \in Handlers, tg \in AccountCallers : ContactStart(h, tg)
    \/ \E h \in Handlers : ContactFlush(h)
    \/ \E h \in Handlers : ContactCommit(h)
    \/ \E tg \in GateCallers : AdminEntry(tg)
    \/ \E tg \in GateCallers, t \in AccountTargets : ToggleAdmin(tg, t)

SpecAccounts == Init /\ [][NextAccounts]_vars

\* ----------------------------------------------------------- observations

\* The custody transactions of item i, oldest first.
TransactionsOf(txs, i) ==
    LET OfItem(t) == t.item_id = i IN SelectSeq(txs, OfItem)

\* Mutant of NewestFirst: ORDER BY created_at ascending.
RECURSIVE OldestFirst(_)
OldestFirst(rows) ==
    IF rows = {} THEN <<>>
    ELSE LET m == CHOOSE r \in rows : \A q \in rows : r.created_at <= q.created_at
         IN  <<m>> \o OldestFirst(rows \ {m})

\* ORDER BY created_at DESC of a set of transaction rows.
RECURSIVE NewestFirst(_)
NewestFirst(rows) ==
    IF rows = {} THEN <<>>
    ELSE LET m == CHOOSE r \in rows : \A q \in rows : q.created_at <= r.created_at
         IN  <<m>> \o NewestFirst(rows \ {m})

\* TransactionRepository.list_for_item_with_user: the rows of the item, ordered by
\* created_at descending, the first `limit` of them.
ListForItemWithUser(i, limit) ==
    LET rows == {transactions[k] : k \in {j \in 1..Len(transactions) :
                                              transactions[j].item_id = i}}
        sorted == NewestFirst(rows)
    IN  SubSeq(sorted, 1, IF limit < Len(sorted) THEN limit ELSE Len(sorted))

\* The limits history is asked with: ovr_item_history asks for 30, the default
\* of list_for_item_with_user is 50.
Limits == {1, 2, 30, 50}

\* TransactionRepository.get_latest_take_for_item, as the set holding its row.
TakesOf(i) ==
    LET IsTake(t) == t.item_id = i /\ t.action = "take" IN SelectSeq(transactions, IsTake)

\* This step takes up a call `op` of account u on item i.
StartedCall(op, u, i) ==
    /\ nops' = nops + 1
    /\ \/ /\ pc' = pc
          /\ last'.op = op /\ last'.user = u /\ last'.item_id = i
       \/ \E h \in Handlers :
             /\ pc[h] = "idle" /\ pc'[h] = "loaded"
             /\ hs'[h].op = op /\ hs'[h].user = u /\ hs'[h].item_id = i

\* This step ends a call in the step that took it up, with `result`, changing nothing.
RefusedWith(result) ==
    /\ pc' = pc
    /\ hs' = hs
    /\ last'.result = result
    /\ store' = store

\* This step is the commit of the handler in slot h.
Commits(h) == pc[h] = "flushed" /\ pc'[h] = "idle" /\ last'.result = "ok"

\* ItemRepository.list_for_holder, behind list_items_for_user: the items of the
\* store `its` whose current_holder_id is the account (whatever their status).
\* The rows come ordered by name; only which items are listed is kept here.
ListForHolder(its, user_id) ==
    {i \in DOMAIN its : its[i].current_holder_id = user_id}

\* The limit ovr_item_history passes to list_for_item_with_user.
HistoryLimit == 30

\* _build_overview_text_and_kb: the holder shown for a taken item is the account
\* of get_latest_take_for_item, "unknown" (no account) if there is no take.
OverviewHolder(i) ==
    LET takes == NewestFirst({transactions[k] : k \in {j \in 1..Len(transactions) :
                                 /\ transactions[j].item_id = i
                                 /\ transactions[j].action = "take"}})
    IN  IF takes = <<>> THEN NULL ELSE takes[1].user_id

\* ovr_item_history: the holder shown for a taken item is the account of the
\* first take among the rows of list_for_item_with_user, none if there is no take.
HistoryHolder(i) ==
    LET IsTake(t) == t.action = "take"
        takes == SelectSeq(ListForItemWithUser(i, HistoryLimit), IsTake)
    IN  IF takes = <<>> THEN NULL ELSE takes[1].user_id

\* ------------------------------------------------------------------ claims

\* C1 (exclusivity): a check_out never commits on an item that the committed store
\* shows taken and held, that is, on an item an earlier check_out holds and that
\* no check_in (and no forced status change) has released since.
Exclusivity ==
    [][\A h \in Handlers :
          (Commits(h) /\ hs[h].op = "take")
              => ~(/\ items[hs[h].item_id].status = "taken"
                   /\ items[hs[h].item_id].current_holder_id # NULL)]_vars

\* C2 (race of N check_outs): when every account has sent its one check_out of the
\* available item and all handlers have ended, the item has exactly one take
\* transaction, it is taken, and its holder is the account of that transaction.
RaceDone == nops = RaceCalls /\ AllIdle
ExactlyOneWinner ==
    RaceDone =>
        /\ Len(TakesOf(RaceItem)) = 1
        /\ items[RaceItem].status = "taken"
        /\ items[RaceItem].current_holder_id = TakesOf(RaceItem)[1].user_id

\* C3: in every committed state an item is taken exactly if it has a holder.
HolderIffTaken ==
    \A i \in DOMAIN items :
        (items[i].status = "taken") <=> (items[i].current_holder_id # NULL)

\* C4 (all or nothing): the committed items and transactions change only in the
\* commit step of a handler; the commit of a check_out or check_in publishes the
\* item's new status (and holder) together with exactly one new transaction of
\* that item, account and action; a step that ends a handler without commit
\* leaves both tables as they were.
CustodyCommitEffect(h) ==
    LET c == hs[h]
        row == items'[c.item_id]
    IN  /\ c.item_id \in DOMAIN items'
        /\ row.status = CustodyStatus(c.op)
        /\ (c.snap.current_holder_id # CustodyHolder(c.op, c.user)
               => row.current_holder_id = CustodyHolder(c.op, c.user))
        /\ Len(transactions') = Len(transactions) + 1
        /\ SubSeq(transactions', 1, Len(transactions)) = transactions
        /\ LET t == transactions'[Len(transactions')]
           IN  t.item_id = c.item_id /\ t.user_id = c.user /\ t.action = c.op
AllOrNothing ==
    [][/\ \A h \in Handlers :
             (Commits(h) /\ hs[h].op \in TransactionAction) => CustodyCommitEffect(h)
       /\ \A h \in Handlers :
             (/\ pc'[h] # pc[h]
              /\ (hs[h].op \in TransactionAction \/ hs'[h].op \in TransactionAction)
              /\ ~Commits(h))
                 => (items' = items /\ transactions' = transactions)
       /\ (nops' # nops /\ pc' = pc /\ last'.op \in TransactionAction)
             => (items' = items /\ transactions' = transactions)
       /\ Len(transactions') > Len(transactions)
             => \E h \in Handlers : Commits(h) /\ hs[h].op \in TransactionAction]_vars
AllOrNothingWitness ==
    /\ last.op = "take" /\ last.result = "error"
    /\ AllIdle
    /\ transactions = <<>>
    /\ \A i \in DOMAIN items : items[i].status = "available"

\* C5 (history agreement): a taken item's holder is the account of the item's most
\* recent take transaction; an item that is not taken has no holder.
HistoryAgreement ==
    \A i \in DOMAIN items :
        IF items[i].status = "taken"
        THEN /\ Len(TakesOf(i)) > 0
             /\ items[i].current_holder_id = TakesOf(i)[Len(TakesOf(i))].user_id
        ELSE items[i].current_holder_id = NULL

\* C6 (round trip): with calls made one after another, a check_in that directly
\* follows a successful check_out of the same item by the same account succeeds,
\* leaves the item available without holder, and the item's transactions are
\* those before the check_out followed by the take and the return of that account.
EndsCall(op, u, i) ==
    \/ /\ nops' = nops + 1 /\ pc' = pc
       /\ last'.op = op /\ last'.user = u /\ last'.item_id = i
    \/ \E h \in Handlers :
          /\ pc[h] # "idle" /\ pc'[h] = "idle"
          /\ hs[h].op = op /\ hs[h].user = u /\ hs[h].item_id = i
AppendsOne(i, u, action) ==
    LET before == TransactionsOf(transactions, i)
        after == TransactionsOf(transactions', i)
        n == Len(before)
    IN  /\ Len(after) = n + 1
        /\ SubSeq(after, 1, n) = before
        /\ after[n + 1].action = action /\ after[n + 1].user_id = u
RoundTrip ==
    [][\A u \in UserIds, i \in ItemIds :
          /\ (EndsCall("take", u, i) /\ last'.result = "ok") => AppendsOne(i, u, "take")
          /\ (/\ EndsCall("return", u, i)
              /\ last.op = "take" /\ last.result = "ok"
              /\ last.user = u /\ last.item_id = i)
             => /\ last'.result = "ok"
                /\ items'[i].status = "available"
                /\ items'[i].current_holder_id = NULL
                /\ AppendsOne(i, u, "return")
                /\ LET before == TransactionsOf(transactions, i)
                   IN  /\ before[Len(before)].action = "take"
                       /\ before[Len(before)].user_id = u]_vars
RoundTripWitness ==
    /\ last.op = "return" /\ last.result = "ok"
    /\ Len(transactions) = 2
    /\ transactions[1].action = "take" /\ transactions[2].action = "return"
    /\ transactions[1].user_id = last.user /\ transactions[2].user_id = last.user
    /\ transactions[1].item_id = last.item_id /\ transactions[2].item_id = last.item_id
    /\ items[last.item_id].status = "available"
    /\ items[last.item_id].current_holder_id = NULL

\* C7 (self-service boundary): a check_in of a taken item by an account that is
\* not its holder is refused with "Item is held by another user", and the store
\* (items, transactions and every other table) is left as it was.
SelfServiceBoundary ==
    [][\A u \in UserIds, i \in ItemIds :
          (/\ StartedCall("return", u, i)
           /\ i \in DOMAIN items
           /\ items[i].status = "taken"
           /\ items[i].current_holder_id # u)
          => RefusedWith(NotHolder)]_vars
SelfServiceBoundaryWitness ==
    /\ last.op = "return" /\ last.result = NotHolder
    /\ items[last.item_id].status = "taken"
    /\ items[last.item_id].current_holder_id \notin {NULL, last.user}
    /\ Len(TransactionsOf(transactions, last.item_id)) = 1

\* C8: a check_out of an unknown item is refused with "Item not found", a check_out
\* of an item that is taken, lost or in maintenance with "Item is not available";
\* a refused check_out leaves the store as it was.
CheckOutRefusals ==
    [][\A u \in UserIds, i \in ItemIds :
          StartedCall("take", u, i)
          => /\ i \notin DOMAIN items => RefusedWith(ItemNotFound)
             /\ (i \in DOMAIN items /\ items[i].status \in {"taken", "lost", "maintenance"})
                   => RefusedWith(NotAvailable)
             /\ last'.result \in {ItemNotFound, NotAvailable} /\ pc' = pc
                   => store' = store]_vars
CheckOutRefusalsWitness ==
    /\ last.op = "take" /\ last.result = NotAvailable
    /\ items[last.item_id].status \in {"lost", "maintenance"}
    /\ transactions = <<>>

\* C9: a check_in is refused with "Item not found" for an unknown item, else with
\* "Item is not currently taken" whenever the item is not taken, whoever calls,
\* else with "Item is held by another user" when the holder is not the caller; the
\* three failure values are pairwise different.
CheckInPrecedence ==
    [][\A u \in UserIds, i \in ItemIds :
          StartedCall("return", u, i)
          => /\ i \notin DOMAIN items => RefusedWith(ItemNotFound)
             /\ (i \in DOMAIN items /\ items[i].status # "taken")
                   => RefusedWith(NotTaken)
             /\ (i \in DOMAIN items /\ items[i].status = "taken"
                    /\ items[i].current_holder_id # u)
                   => RefusedWith(NotHolder)
             /\ Cardinality({ItemNotFound, NotTaken, NotHolder, "ok"}) = 4]_vars
CheckInPrecedenceWitness ==
    /\ last.op = "return" /\ last.result = NotTaken
    /\ items[last.item_id].status # "taken"
    /\ items[last.item_id].current_holder_id # last.user

\* C10, as claimed: a committed custody transaction is present, unchanged, in every
\* later state, whatever operation is performed.
Present(t, txs) == \E k \in 1..Len(txs) : txs[k] = t
AppendOnly ==
    [][\A k \in 1..Len(transactions) : Present(transactions[k], transactions')]_vars
\* C10, amended: a committed custody transaction is never changed, and it is
\* removed only by a step that deletes its item (the item itself or its category)
\* on a store that enforces the ON DELETE CASCADE foreign keys; check_out,
\* check_in, forced status changes and item creation leave every transaction.
AppendOnlyButCascade ==
    [][\A k \in 1..Len(transactions) :
          \/ Present(transactions[k], transactions')
          \/ /\ backend = "postgres"
             /\ last'.op \in {"delete_item", "delete_category"}
             /\ transactions[k].item_id \in DOMAIN items
             /\ transactions[k].item_id \notin DOMAIN items']_vars
AppendOnlyButCascadeWitness ==
    /\ last.op \in {"delete_item", "delete_category"} /\ last.result = "True"
    /\ tx_seq > 0
    /\ transactions = <<>>

\* C11: custody transactions are created only by the commit of a check_out or a
\* check_in, one per commit, for the item and the account of the call and with
\* its action (take for a check_out, return for a check_in); no other step (a
\* refused or failed call, a forced status change, a creation or a deletion)
\* adds a transaction.
NewTransactions == {k \in 1..Len(transactions') : ~Present(transactions'[k], transactions)}
EventsOnlyByTransitions ==
    [][/\ \A h \in Handlers :
             (Commits(h) /\ hs[h].op \in TransactionAction)
                => \E k \in 1..Len(transactions') :
                      /\ NewTransactions = {k}
                      /\ transactions'[k].item_id = hs[h].item_id
                      /\ transactions'[k].user_id = hs[h].user
                      /\ transactions'[k].action = hs[h].op
       /\ NewTransactions # {}
             => \E h \in Handlers : Commits(h) /\ hs[h].op \in TransactionAction]_vars
EventsOnlyByTransitionsWitness ==
    /\ last.op = "set_status" /\ last.result = "True"
    /\ Len(transactions) = 1
    /\ transactions[1].action = "take"
    /\ Len(admin_logs) = 2
    /\ nops = 3

\* C12: a forced status change to a status other than taken that succeeds leaves
\* the item without holder, whatever the item's status and holder were and
\* whoever the caller is.
SetsStatus(h) ==
    /\ pc[h] # "idle" /\ pc'[h] = "idle"
    /\ hs[h].op = "set_status"
    /\ last'.result = "True"
ForcedClearsHolder ==
    [][\A h \in Handlers :
          (/\ SetsStatus(h)
           /\ hs[h].arg # "taken"
           /\ hs[h].item_id \in DOMAIN items')
          => items'[hs[h].item_id].current_holder_id = NULL]_vars

\* C13: a forced status change that succeeds adds no custody transaction and
\* removes none, and adds exactly one entry to the admin log, an entry of action
\* set_item_status whose administrator is the caller.
ForcedChangeIsLoggedOnly ==
    [][\A h \in Handlers :
          SetsStatus(h)
          => /\ transactions' = transactions
             /\ Len(admin_logs') = Len(admin_logs) + 1
             /\ SubSeq(admin_logs', 1, Len(admin_logs)) = admin_logs
             /\ admin_logs'[Len(admin_logs')].admin_id = hs[h].user
             /\ admin_logs'[Len(admin_logs')].action = "set_item_status"
             /\ admin_logs'[Len(admin_logs')].target = hs[h].item_id]_vars
ForcedChangeIsLoggedOnlyWitness ==
    /\ last.op = "set_status" /\ last.result = "True"
    /\ last.item_id \in DOMAIN items
    /\ items[last.item_id].status = "maintenance"
    /\ items[last.item_id].current_holder_id = NULL
    /\ Len(transactions) = 1
    /\ transactions[1].item_id = last.item_id
    /\ transactions[1].user_id # last.user
    /\ Len(admin_logs) = 2

\* C14 (authorization gate): every step that commits an administrative mutation
\* (each of them adds its entry to the admin log) acts for an account that is an
\* administrator when the mutation is made, that is, after the ensure_user of the
\* handler: the account has is_admin set or is on the allow-list.
LoggedAdmin == admin_logs'[Len(admin_logs')].admin_id
GatedMutations ==
    [][Len(admin_logs') > Len(admin_logs)
          => \/ users[LoggedAdmin].is_admin
             \/ users[LoggedAdmin].telegram_id \in InitialAdminIds]_vars

ShownHolderIsCurrentHolder ==
    \A i \in DOMAIN items :
        items[i].status = "taken"
            => /\ OverviewHolder(i) = items[i].current_holder_id
               /\ HistoryHolder(i) = items[i].current_holder_id

\* C17: after every step no two items carry the same inventory code (items
\* without a code aside); a creation that is refused creates no item and logs
\* nothing, and a change of code that would give an item the code of another
\* item is refused and changes nothing.
CodesUnique(its) ==
    \A i, j \in DOMAIN its :
        (i # j /\ its[i].inventory_code # NoCode)
            => its[i].inventory_code # its[j].inventory_code
UniqueCodes ==
    [][/\ CodesUnique(items')
       /\ (nops' # nops /\ last'.op \in {"create_item", "update_item_code"}
              /\ last'.result = "error")
             => (items' = items /\ admin_logs' = admin_logs)
       /\ (nops' # nops /\ last'.op = "create_item" /\ last'.result = "True")
             => /\ last'.item_id \notin DOMAIN items
                /\ ~CodeInUse(items'[last'.item_id].inventory_code, NULL)
       /\ (nops' # nops /\ last'.op = "update_item_code" /\ last'.result = "True")
             => ~CodeInUse(items'[last'.item_id].inventory_code, last'.item_id)]_vars
UniqueCodesWitness ==
    /\ backend = "sqlite"
    /\ last.op = "create_item" /\ last.result = "error"
    /\ \E i \in DOMAIN items : items[i].inventory_code \in Codes
    /\ Cardinality(DOMAIN items) = 1

\* C18: after every step no two categories, active or not, have the same name; a
\* creation that is refused creates no category and logs nothing (a name held by
\* a deactivated category is refused too), and a rename that would give a
\* category the name of another category is refused and changes nothing.
NamesUnique(cats) ==
    \A c, d \in DOMAIN cats : c # d => cats[c].name # cats[d].name
UniqueNames ==
    [][/\ NamesUnique(categories')
       /\ (nops' # nops /\ last'.op \in {"create_category", "rename_category"}
              /\ last'.result = "error")
             => (categories' = categories /\ admin_logs' = admin_logs)
       /\ (nops' # nops /\ last'.op = "create_category" /\ last'.result = "True")
             => /\ last'.item_id \notin DOMAIN categories
                /\ ~NameInUse(categories'[last'.item_id].name, NULL)
       /\ (nops' # nops /\ last'.op = "rename_category" /\ last'.result = "True")
             => ~NameInUse(categories'[last'.item_id].name, last'.item_id)]_vars
UniqueNamesWitness ==
    /\ last.op = "create_category" /\ last.result = "error"
    /\ Cardinality(DOMAIN categories) = 1
    /\ \A c \in DOMAIN categories : ~categories[c].is_active
    /\ Len(admin_logs) = 2

\* C19: an item creation that succeeds creates the item under a category that
\* exists; under a category that does not exist no item is created and nothing
\* is logged.
CreationNeedsCategory ==
    [][(nops' # nops /\ last'.op = "create_item")
          => \/ /\ last'.result = "True"
                /\ items'[last'.item_id].category_id \in DOMAIN categories
             \/ /\ last'.result = "error"
                /\ items' = items /\ admin_logs' = admin_logs]_vars

\* C20 (audit trail): the admin log only grows, by one entry per step and without
\* change to its earlier entries; every administrative handler that succeeds
\* (creation, rename, recoding, activation, deactivation and deletion of
\* categories and items, toggle of the administrator flag, forced status change)
\* adds, in the step that commits its change, exactly one entry naming its
\* caller, and no other step adds an entry or changes categories or items.
CompletesAdminCall ==
    \/ nops' # nops /\ pc' = pc /\ last'.op # "admin_entry"
    \/ \E h \in Handlers : pc[h] # "idle" /\ pc'[h] = "idle" /\ hs[h].op = "set_status"
Succeeded ==
    \/ last'.result = "True"
    \/ last'.op = "toggle_admin" /\ last'.result = "False"
AuditTrail ==
    [][/\ Len(admin_logs') \in {Len(admin_logs), Len(admin_logs) + 1}
       /\ SubSeq(admin_logs', 1, Len(admin_logs)) = admin_logs
       /\ (CompletesAdminCall /\ Succeeded)
             => /\ Len(admin_logs') = Len(admin_logs) + 1
                /\ admin_logs'[Len(admin_logs')].admin_id = last'.user
       /\ Len(admin_logs') = Len(admin_logs) + 1
             => CompletesAdminCall /\ Succeeded
       /\ (categories' # categories \/ items' # items)
             => Len(admin_logs') = Len(admin_logs) + 1]_vars
AuditTrailWitness ==
    /\ Len(admin_logs) = 4
    /\ admin_logs[2].action = "toggle_admin"
    /\ admin_logs[3].action = "set_item_status"
    /\ admin_logs[4].action = "delete_category"
    /\ admin_logs[3].admin_id # admin_logs[4].admin_id

\* C21: an administrative call by id (rename, recoding, deletion and forced
\* status change of an item; rename, activation, deactivation and deletion of a
\* category; toggle of an administrator flag) whose id names no row ends in the
\* step that takes it up, without exception, with False (None for the toggle);
\* it leaves categories, items, transactions and the admin log as they were, and
\* the accounts as the ensure_user of its handler leaves them.
ItemCalls == {"rename_item", "update_item_code", "delete_item", "set_status"}
CategoryCalls == {"rename_category", "activate_category", "deactivate_category",
                  "delete_category"}
TargetMissing(op, id) ==
    \/ op \in ItemCalls /\ id \notin DOMAIN items
    \/ op \in CategoryCalls /\ id \notin DOMAIN categories
    \/ op = "toggle_admin" /\ id \notin DOMAIN users
NotFoundIsSilent ==
    [][(/\ nops' # nops
        /\ last'.op \in ItemCalls \cup CategoryCalls \cup {"toggle_admin"}
        /\ \A h \in Handlers : pc'[h] = "idle" \/ hs'[h] = hs[h]
        /\ TargetMissing(last'.op, last'.item_id))
          => /\ last'.result = IF last'.op = "toggle_admin" THEN "None" ELSE "False"
             /\ <<categories, items, transactions, admin_logs>>' =
                   <<categories, items, transactions, admin_logs>>
             /\ users' = EnsureUser(users, users[last'.user].telegram_id)
             /\ pc' = pc]_vars
NotFoundIsSilentWitness ==
    /\ last.op = "rename_item"
    /\ last.result = "False"
    /\ last.item_id \notin DOMAIN items
    /\ admin_logs[Len(admin_logs)].action = "delete_item"

\* C22: in every committed state each custody transaction refers to an item
\* that exists and each item to a category that exists: the deletion of an item
\* leaves no transaction of it, the deletion of a category no item of it and no
\* transaction of such an item.
ReferentialIntegrity ==
    /\ \A k \in 1..Len(transactions) : transactions[k].item_id \in DOMAIN items
    /\ \A i \in DOMAIN items : items[i].category_id \in DOMAIN categories

\* C23: an account's administrator flag goes from unset to set in two ways only:
\* the account is created with it for an identity of the allow-list, or a
\* toggle_admin names the account; a later contact of an account that has been
\* demoted leaves its flag unset.
FlagSetOnlyByBootstrapOrToggle ==
    [][\A u \in DOMAIN users' :
          (users'[u].is_admin /\ (u \in DOMAIN users => ~users[u].is_admin))
              => \/ u \notin DOMAIN users /\ users'[u].telegram_id \in InitialAdminIds
                 \/ /\ nops' # nops
                    /\ pc' = pc
                    /\ last'.op = "toggle_admin"
                    /\ last'.item_id = u]_vars

\* C24: a toggle_admin that names an existing account leaves that account's
\* administrator flag the opposite of what it was and reports the new flag, and
\* leaves every other account as it was, also when the caller names itself
\* (two toggles of one account in a row therefore restore its flag).
TogglesAccount(t) ==
    /\ nops' # nops
    /\ pc' = pc
    /\ last'.op = "toggle_admin"
    /\ last'.item_id = t
ToggleFlips ==
    [][\A t \in DOMAIN users :
          TogglesAccount(t)
              => /\ users'[t].is_admin = ~users[t].is_admin
                 /\ last'.result = Shown(users'[t].is_admin)
                 /\ \A o \in DOMAIN users \ {t} : users'[o] = users[o]]_vars

\* C25: after every step no two accounts have the same telegram id, also when
\* two handlers take up the first contact of one identity at the same time; no
\* step removes an account or changes its telegram id; a contact of an identity
\* that has an account ends with that account and creates none.
OneAccountPerIdentity(us) ==
    \A u, v \in DOMAIN us : us[u].telegram_id = us[v].telegram_id => u = v
AccountsUniqueAndKept ==
    [][/\ OneAccountPerIdentity(users')
       /\ \A u \in DOMAIN users :
             u \in DOMAIN users' /\ users'[u].telegram_id = users[u].telegram_id
       /\ \A tg \in AccountCallers :
             (/\ HasAccount(tg)
              /\ nops' # nops /\ pc' = pc
              /\ last'.op = "start" /\ last'.user = UserByTelegram(tg))
                 => DOMAIN users' = DOMAIN users]_vars
AccountsUniqueAndKeptWitness ==
    /\ \E u \in DOMAIN users : users[u].telegram_id \in Strangers
    /\ last.op = "start"
    /\ last.result = "error"

\* C26: take_item and return_item are called only for a photo message of a
\* dialogue that waits for the photo of that action, with the item of the
\* dialogue; every committed custody transaction carries the file id of a photo;
\* and the transactions change only when such a call commits: no button and no
\* message that is not a photo adds one.
TakesUpCustody(h) ==
    /\ pc[h] = "idle"
    /\ pc'[h] = "loaded"
    /\ hs'[h].op \in TransactionAction
PhotoEvidence ==
    [][/\ \A k \in 1..Len(transactions') : transactions'[k].photo_file_id \in Photos
       /\ \A h \in Handlers :
             TakesUpCustody(h)
                => /\ hs'[h].arg \in Photos
                   /\ fsm[users[hs'[h].user].telegram_id] =
                         Waiting(hs'[h].op, hs'[h].item_id)
       /\ (nops' # nops /\ pc' = pc /\ last'.op \in TransactionAction)
             => fsm[users[last'.user].telegram_id] = Waiting(last'.op, last'.item_id)
       /\ transactions' # transactions
             => \E h \in Handlers : Commits(h) /\ hs[h].arg \in Photos]_vars
PhotoEvidenceWitness ==
    /\ Len(transactions) = 2
    /\ transactions[2].action = "return"
    /\ last.op = "expect_photo_for_take"
    /\ \E tg \in TelegramIds : fsm[tg].state = "take"

\* C27: in every committed state, whatever the interleaving of the handlers of
\* check_out, check_in and forced status changes, an item that has a holder is
\* taken.
HolderImpliesTaken ==
    \A i \in DOMAIN items :
        items[i].current_holder_id # NULL => items[i].status = "taken"

\* C28: in the sequence of an item's custody transactions every return comes
\* directly after a take of the same account (so no two returns follow each
\* other and there are never more returns than takes), also when the holder
\* sends two check_ins at the same time.
ReturnFollowsTake ==
    \A i \in ItemIds :
        LET txs == TransactionsOf(transactions, i)
        IN  \A k \in 1..Len(txs) :
                txs[k].action = "return"
                    => /\ k > 1
                       /\ txs[k - 1].action = "take"
                       /\ txs[k - 1].user_id = txs[k].user_id

\* C29: what becomes of a take photo is decided by the committed item when the
\* photo is taken up, whatever the item was when the take button was pressed: if
\* the item is available the call goes on and the dialogue keeps waiting; if an
\* earlier check_out of another account has been committed, the photo is
\* answered "Item is not available", the store is left as it was (no
\* transaction added, the holder kept) and the sender's dialogue is cleared.
TakePhotoDecidedOnArrival ==
    [][\A tg \in TelegramIds :
          LET u == UserByTelegram(tg)
              i == fsm[tg].item_id
          IN  (/\ fsm[tg].state = "take"
               /\ ItemExists(i)
               /\ StartedCall("take", u, i))
                 => IF items[i].status = "available"
                    THEN /\ \E h \in Handlers : pc[h] = "idle" /\ pc'[h] = "loaded"
                         /\ fsm'[tg] = fsm[tg]
                         /\ store' = store
                    ELSE /\ RefusedWith(NotAvailable)
                         /\ items'[i].current_holder_id = items[i].current_holder_id
                         /\ fsm'[tg] = NoDialogue]_vars
TakePhotoDecidedOnArrivalWitness ==
    /\ last = Result("take", 2, 1, NotAvailable)
    /\ items[1].status = "taken"
    /\ items[1].current_holder_id = 1
    /\ Len(transactions) = 1
    /\ fsm["tg2"] = NoDialogue
    /\ nops = 2

\* C30: whenever an "item taken" or "item returned" notification has been sent
\* for a call, the custody transaction of that call (its item, account, action and
\* photo) is in the committed store.
NotifiedOnlyCommitted ==
    \A n \in notices :
        \E k \in 1..Len(transactions) :
            /\ transactions[k].item_id = n.item_id
            /\ transactions[k].user_id = n.user_id
            /\ transactions[k].action = n.action
            /\ transactions[k].photo_file_id = n.photo_file_id
            /\ transactions[k].created_at = n.created_at

\* The deliveries of notification n that went to the chat of account a.
AttemptsTo(n, a) ==
    {k \in 1..Len(n.deliveries) : n.deliveries[k].chat_id = users[a].telegram_id}

\* C31: when the flush of a take or a return is followed by the notification,
\* whichever of the sends fail, every administrator's chat is sent the message
\* exactly once, no other chat is, and the handler goes on to its commit; a
\* handler that has flushed ends only by committing.
DeliveryFailuresContained ==
    [][\A h \in Handlers :
          /\ (pc[h] = "loaded" /\ hs[h].op \in TransactionAction /\ pc'[h] # "loaded"
               /\ ItemExists(hs[h].item_id) /\ ListAdmins # <<>>)
             => /\ pc'[h] = "flushed"
                /\ \E n \in notices' \ notices :
                      /\ n.created_at = hs'[h].created_at
                      /\ Len(n.deliveries) = Len(ListAdmins)
                      /\ \A a \in DOMAIN users :
                            Cardinality(AttemptsTo(n, a))
                                = IF users[a].is_admin THEN 1 ELSE 0
          /\ (pc[h] = "flushed" /\ hs[h].op \in TransactionAction /\ pc'[h] # "flushed")
             => Commits(h)]_vars
DeliveryFailuresContainedWitness ==
    \E n \in notices :
        /\ Len(n.deliveries) = 2
        /\ ~n.deliveries[1].delivered
        /\ n.deliveries[2].delivered
        /\ \E k \in 1..Len(transactions) :
              /\ transactions[k].created_at = n.created_at
              /\ transactions[k].action = n.action
              /\ items[n.item_id].status = CustodyStatus(n.action)

\* This step ends the photo handler of slot h.
EndsPhotoHandler(h) ==
    pc[h] # "idle" /\ hs[h].op \in TransactionAction /\ pc'[h] = "idle"

\* This step is a photo refused on arrival by the account u.
RefusesPhoto(u) ==
    \E op \in TransactionAction, i \in ItemIds \cup {NULL} :
        StartedCall(op, u, i) /\ pc' = pc

\* This step is expect_photo_for_take or expect_photo_for_return.
AsksForPhoto ==
    /\ nops' = nops + 1
    /\ pc' = pc
    /\ last'.op \in {"expect_photo_for_take", "expect_photo_for_return"}

\* This step is "/start" sent by an account whose dialogue waits for a photo.
StartsOver ==
    /\ nops' = nops + 1
    /\ pc' = pc
    /\ last'.op = "start"
    /\ last'.user \in DOMAIN users
    /\ fsm[users[last'.user].telegram_id] # NoDialogue

\* This step is the cancel button pressed in a waiting dialogue.
Cancels ==
    /\ nops' = nops
    /\ pc' = pc
    /\ \E tg \in DOMAIN fsm : fsm[tg] # NoDialogue /\ fsm'[tg] = NoDialogue

\* C32 as stated: whenever a photo handler ends, the dialogue of its user is
\* cleared; a message that is not a photo, sent in a waiting dialogue, changes
\* neither the dialogues nor the store; cancel changes nothing in the store.
ConversationAlwaysLeft ==
    [][/\ \A h \in Handlers :
            EndsPhotoHandler(h) => fsm'[users[hs[h].user].telegram_id] = NoDialogue
       /\ \A u \in DOMAIN users :
            RefusesPhoto(u) => fsm'[users[u].telegram_id] = NoDialogue /\ store' = store
       /\ (AsksForPhoto \/ StartsOver) => fsm' = fsm /\ store' = store
       /\ Cancels => store' = store]_vars

\* C32, amended: whenever a photo handler returns (it has committed, or take_item /
\* return_item has refused), the dialogue of its user is cleared; a message that
\* reaches expect_photo_for_take or expect_photo_for_return changes neither the
\* dialogues nor the store; cancel changes nothing in the store.
ConversationLeftOnReturn ==
    [][/\ \A h \in Handlers :
            (EndsPhotoHandler(h) /\ last'.result # "error")
                => fsm'[users[hs[h].user].telegram_id] = NoDialogue
       /\ \A u \in DOMAIN users :
            RefusesPhoto(u) => fsm'[users[u].telegram_id] = NoDialogue /\ store' = store
       /\ AsksForPhoto => fsm' = fsm /\ store' = store
       /\ Cancels => store' = store]_vars
ConversationLeftOnReturnWitness ==
    /\ last = Result("expect_photo_for_take", 1, 1, "")
    /\ fsm["tg1"] = Waiting("take", 1)
    /\ fsm["tg2"] = NoDialogue
    /\ Len(transactions) = 1
    /\ transactions[1].user_id = 2
    /\ nops = 2

\* C33: a forced status change to a status other than taken that succeeds on an
\* item the store holds as taken by an account leaves the item out of that
\* account's holdings; and a return of an item whose status is not taken, the
\* state a forced release leaves, is refused as not taken and changes nothing.
ForcedReleaseEndsHolding ==
    [][/\ \A h \in Handlers :
            (/\ SetsStatus(h)
             /\ hs[h].arg # "taken"
             /\ hs[h].item_id \in DOMAIN items \cap DOMAIN items'
             /\ items[hs[h].item_id].status = "taken"
             /\ items[hs[h].item_id].current_holder_id # NULL)
            => hs[h].item_id
                  \notin ListForHolder(items', items[hs[h].item_id].current_holder_id)
       /\ \A u \in DOMAIN users, i \in DOMAIN items :
            (StartedCall("return", u, i) /\ items[i].status # "taken")
            => RefusedWith(NotTaken)]_vars

\* C34: a change of code is refused only for an external code that another item
\* carries; the reset of a code (the /skip input), which asks for no external
\* code, is never refused, however many items have had their code reset.
ResetNeverConflicts ==
    [][(/\ nops' # nops
        /\ last'.op = "update_item_code"
        /\ last'.result = "error")
       => \E j \in DOMAIN items \ {last'.item_id} :
              items[j].inventory_code \in Codes]_vars

\* The username of a telegram id with its leading '@' dropped and its letters in
\* lower case; the empty string for the username None.
Canonical(username) ==
    IF username = NoUsername THEN <<>>
    ELSE LET lead == {k \in 1..Len(username) : \A j \in 1..k : username[j] = "@"}
             rest == SubSeq(username, Cardinality(lead) + 1, Len(username))
             low == [c \in {"@", "a", "b", "A", "B", " "} |->
                        CASE c = "A" -> "a" [] c = "B" -> "b" [] OTHER -> c]
         IN  [k \in 1..Len(rest) |-> low[rest[k]]]

\* C35: an account that a step creates is an administrator exactly if its
\* telegram id is on the id allow-list or its username, without the leading '@'
\* and in lower case, is on the username allow-list; an account created without
\* username is an administrator exactly if its telegram id is on the id allow-list.
\* The names configured on the username allow-list are "a" and "b".
BootstrapRule ==
    [][\A u \in DOMAIN users' \ DOMAIN users :
          LET tg == users'[u].telegram_id
          IN  /\ users'[u].is_admin
                    <=> (tg \in InitialAdminIds
                         \/ Canonical(UsernameOf[tg]) \in {<<"a">>, <<"b">>})
              /\ UsernameOf[tg] = NoUsername
                    => (users'[u].is_admin <=> tg \in InitialAdminIds)]_vars
BootstrapRuleWitness ==
    /\ Cardinality(DOMAIN users) = 6
    /\ \E u \in DOMAIN users : users[u].telegram_id = "tg5" /\ users[u].is_admin
    /\ \E u \in DOMAIN users : users[u].telegram_id = "tg6" /\ ~users[u].is_admin
    /\ \E u \in DOMAIN users : users[u].telegram_id = "tg4" /\ users[u].is_admin

====
